---------------------------- MODULE Spec2Model ----------------------------
(***************************************************************************)
(* Model of src/main.py: the Telegram "who is around" bot.                 *)
(*                                                                         *)
(* State: the two process-wide dictionaries (organizations, members), the  *)
(* two Datastore kinds (Organization, Member), the AUTHORIZED_ORGS         *)
(* environment variable and the clock.  Every webhook delivery is one      *)
(* action that runs the whole handler, including the handlers it calls.    *)
(* A Python exception ends the handler where it is raised: what was        *)
(* assigned before it stays assigned.  What a handler returns, replies and *)
(* asks of the Datastore is a result of webhook(state, update): a property *)
(* of a handler is stated for every reachable state and every update.      *)
(***************************************************************************)
EXTENDS Integers, Sequences, FiniteSets, TLC

VARIABLES
    organizations,    \* main.py:36   ordered dict: name -> list of usernames
    members,          \* main.py:41   dict: username -> dict of preferences
    dbOrganization,   \* Datastore kind 'Organization': name -> entity
    dbMember,         \* Datastore kind 'Member': name -> entity
    AUTHORIZED_ORGS,  \* os.environ["AUTHORIZED_ORGS"], as its comma-separated parts
    now,              \* the date datetime.utcnow() falls on
    ticks,            \* clock advances so far
    deploys,          \* process (re)starts so far
    scenario          \* progress of the alice/bob scenario (-1: left it)

vars == <<organizations, members, dbOrganization, dbMember, AUTHORIZED_ORGS, now,
          ticks, deploys, scenario>>

---------------------------------------------------------------------------
(* Bounds of the model. *)

MaxTicks == 1          \* clock advances explored
MaxDeploys == 1        \* process restarts explored
MaxListLen == 2        \* longest membership list explored
MaxStoreCalls == 4     \* Datastore calls of one request among which one may fail

---------------------------------------------------------------------------
(* The finite input alphabet. *)

Usernames == {"alice", "bob"}
NoUsername == ""                     \* from_user.username empty or None
Senders == Usernames \cup {NoUsername}

\* Message texts, and the parts AUTHORIZED_ORGS may hold.
GroupTexts == {"acme", "Other", "nope"}
EnvChoices == { <<"acme">>, <<"acme", "Other">> }

\* str.upper() on the strings of the model.
upper(s) ==
    CASE s = "acme"   -> "ACME"
      [] s = "ACME"   -> "ACME"
      [] s = "Other"  -> "OTHER"
      [] s = "OTHER"  -> "OTHER"
      [] s = "nope"   -> "NOPE"
      [] s = "/start" -> "/START"
      [] s = "/help"  -> "/HELP"
      [] OTHER        -> s

\* Datastore returns a kind's entities in key order.
KeyOrder == << "ACME", "OTHER", "alice", "bob" >>

\* callback_data: the menu's digits, and the commented-out non-digit button.
CallbackData == {"2", "3", "change_org"}

\* str.isdigit() and float() on the callback data of the model.
isdigit(s) == s \in {"0", "1", "2", "3", "4"}

float(s) ==
    CASE s = "0" -> 0
      [] s = "1" -> 1
      [] s = "2" -> 2
      [] s = "3" -> 3
      [] s = "4" -> 4

\* Coordinates in hundredths of a degree: two places 0.02 degrees of longitude
\* apart at latitude 55.45 (1.27 km).  bob is at either; the others stay at Home.
Home == [longitude |-> 3774, latitude |-> 5545]
Away == [longitude |-> 3776, latitude |-> 5545]
Locations == {Home, Away}
LocationsOf(u) == IF u = "bob" THEN Locations ELSE {Home}

\* Message ages at receipt, in milliseconds.
Ages == {9999, 10000}

---------------------------------------------------------------------------
(* Python dict and list helpers. *)

EmptyDict == [k \in {} |-> k]

DictSet(d, k, v) == (k :> v) @@ d

DictDel(d, ks) == [k \in DOMAIN d \ ks |-> d[k]]

Range(s) == { s[i] : i \in 1..Len(s) }

\* x in list
InList(x, s) == \E i \in 1..Len(s) : s[i] = x

\* organizations is an insertion-ordered dict: a sequence of (name, members).
OrgKeys(orgs) == [i \in 1..Len(orgs) |-> orgs[i].name]

OrgHas(orgs, k) == \E i \in 1..Len(orgs) : orgs[i].name = k

OrgIdx(orgs, k) == CHOOSE i \in 1..Len(orgs) : orgs[i].name = k

OrgGet(orgs, k) == orgs[OrgIdx(orgs, k)].members

OrgSet(orgs, k, v) ==
    IF OrgHas(orgs, k)
    THEN [orgs EXCEPT ![OrgIdx(orgs, k)].members = v]
    ELSE Append(orgs, [name |-> k, members |-> v])

\* defaultdict(list).__getitem__: a missing key is inserted with an empty list.
OrgTouch(orgs, k) ==
    IF OrgHas(orgs, k) THEN orgs ELSE Append(orgs, [name |-> k, members |-> <<>>])

---------------------------------------------------------------------------
(* The calendar: datetime dates, and datetime.day. *)

IsLeap(y) == (y % 4 = 0 /\ y % 100 # 0) \/ y % 400 = 0

DaysInMonth(y, m) ==
    CASE m \in {4, 6, 9, 11} -> 30
      [] m = 2 -> IF IsLeap(y) THEN 29 ELSE 28
      [] OTHER -> 31

NextDay(d) ==
    IF d.day < DaysInMonth(d.year, d.month)
    THEN [d EXCEPT !.day = @ + 1]
    ELSE IF d.month < 12
         THEN [d EXCEPT !.month = @ + 1, !.day = 1]
         ELSE [year |-> d.year + 1, month |-> 1, day |-> 1]

RECURSIVE AddDays(_, _)
AddDays(d, n) == IF n = 0 THEN d ELSE AddDays(NextDay(d), n - 1)

StartDate == [year |-> 2026, month |-> 9, day |-> 30]

---------------------------------------------------------------------------
(* The state a handler works on, threaded through the calls it makes. *)

Cur == [ orgs    |-> organizations,
         mem     |-> members,
         dbo     |-> dbOrganization,
         dbm     |-> dbMember,
         replies |-> <<>>,
         nearby  |-> <<>>,
         calls   |-> <<>>,
         ret     |-> "none",
         exc     |-> "none",
         fail    |-> 0 ]

Raise(S, e) == [S EXCEPT !.exc = e]

Reply(S, r) == [S EXCEPT !.replies = Append(@, r)]

---------------------------------------------------------------------------
(* Datastore access. *)

\* A call of the Datastore client (query.fetch, db.put, db.delete_multi).  The
\* client raises when the Datastore cannot be reached: S.fail is the number of
\* the call of this request that does (0: none); the call then changes nothing.
Unavailable(S) == S.fail = Len(S.calls) + 1

DbCall(S, call) == [S EXCEPT !.calls = Append(@, call)]

DbFail(S, call) == Raise(DbCall(S, call), "ServiceUnavailable")

\* db_query_by_kind: the call; the entities are read from S.dbo / S.dbm.
db_query_by_kind(S, kind) ==
    IF Unavailable(S) THEN DbFail(S, <<"query", kind>>)
    ELSE DbCall(S, <<"query", kind>>)

QueryNames(store) == SelectSeq(KeyOrder, LAMBDA k : k \in DOMAIN store)

db_upsert_org(S, org_cd, org_members) ==
    IF Unavailable(S) THEN DbFail(S, <<"put", "Organization">>)
    ELSE [S EXCEPT !.dbo = DictSet(@, org_cd, [members |-> org_members]),
                   !.calls = Append(@, <<"put", "Organization">>)]

\* datastore.helpers.GeoPoint(latitude, longitude): positional.
GeoPoint(latitude, longitude) == <<latitude, longitude>>

db_upsert_member(S, username, selected_org, travel_radius, location, utcnow) ==
    IF Unavailable(S) THEN DbFail(S, <<"put", "Member">>)
    ELSE
    [S EXCEPT !.dbm = DictSet(@, username,
                         [ selected_org  |-> selected_org,
                           travel_radius |-> travel_radius,
                           location      |-> GeoPoint(location.latitude, location.longitude),
                           created_dttm  |-> utcnow ]),
              !.calls = Append(@, <<"put", "Member">>)]

db_delete_multi(S, kind, names) ==
    IF Unavailable(S) THEN DbFail(S, <<"delete", kind>>)
    ELSE IF kind = "Organization"
    THEN [S EXCEPT !.dbo = DictDel(@, names),
                   !.calls = Append(@, <<"delete", kind>>)]
    ELSE [S EXCEPT !.dbm = DictDel(@, names),
                   !.calls = Append(@, <<"delete", kind>>)]

---------------------------------------------------------------------------
(* refresh_members, refresh_organizations. *)

refresh_members(S, utcnow) ==
    LET S1    == db_query_by_kind([S EXCEPT !.mem = EmptyDict], "Member")
        today == { u \in DOMAIN S.dbm : S.dbm[u].created_dttm.day = utcnow.day }
        old   == DOMAIN S.dbm \ today
        S2    == [S1 EXCEPT !.mem =
                     [ u \in today |->
                         [ selected_org  |-> S.dbm[u].selected_org,
                           travel_radius |-> S.dbm[u].travel_radius,
                           location      |-> [ longitude |-> S.dbm[u].location[2],
                                               latitude  |-> S.dbm[u].location[1] ] ] ]]
    IN  IF S1.exc # "none" THEN S1
        ELSE IF old # {} THEN db_delete_multi(S2, "Member", old) ELSE S2

\* os.environ["AUTHORIZED_ORGS"].upper().split(',')
authorized_orgs(env) == [i \in 1..Len(env) |-> upper(env[i])]

\* lines 186-188: every authorized org gets a key.
RECURSIVE FillAuthorized(_, _, _)
FillAuthorized(orgs, auth, i) ==
    IF i > Len(auth) THEN orgs
    ELSE FillAuthorized(IF OrgHas(orgs, auth[i]) THEN orgs ELSE OrgSet(orgs, auth[i], <<>>),
                        auth, i + 1)

\* refresh_organizations without its last step, the fill of the authorized
\* names that have no entity.
refresh_organizations_no_fill(S, env) ==
    LET auth  == authorized_orgs(env)
        S1    == db_query_by_kind([S EXCEPT !.orgs = <<>>], "Organization")
        names == QueryNames(S.dbo)
        kept  == SelectSeq(names, LAMBDA k : InList(k, auth))
        gone  == { k \in DOMAIN S.dbo : ~InList(k, auth) }
        orgs1 == [i \in 1..Len(kept) |-> [name |-> kept[i], members |-> S.dbo[kept[i]].members]]
        S2    == IF gone # {} THEN db_delete_multi(S1, "Organization", gone) ELSE S1
    IN  IF S1.exc # "none" THEN S1 ELSE [S2 EXCEPT !.orgs = orgs1]

\* refresh_organizations that keeps the old dictionary and extends its lists
\* with the members of the entities instead of replacing them.
refresh_organizations_extend(S, env) ==
    LET auth  == authorized_orgs(env)
        S1    == db_query_by_kind(S, "Organization")
        names == QueryNames(S.dbo)
        kept  == SelectSeq(names, LAMBDA k : InList(k, auth))
        gone  == { k \in DOMAIN S.dbo : ~InList(k, auth) }
        orgs0 == FillAuthorized(S.orgs, kept, 1)
        orgs1 == [i \in 1..Len(orgs0) |->
                     IF InList(orgs0[i].name, kept)
                     THEN [orgs0[i] EXCEPT !.members = @ \o S.dbo[orgs0[i].name].members]
                     ELSE orgs0[i]]
        S2    == IF gone # {} THEN db_delete_multi(S1, "Organization", gone) ELSE S1
        orgs2 == IF Len(orgs1) < Len(auth) THEN FillAuthorized(orgs1, auth, 1) ELSE orgs1
    IN  IF S1.exc # "none" THEN S1
        ELSE IF S2.exc # "none" THEN [S2 EXCEPT !.orgs = orgs1]
        ELSE [S2 EXCEPT !.orgs = orgs2]

refresh_organizations(S, env) ==
    LET auth  == authorized_orgs(env)
        S1    == db_query_by_kind([S EXCEPT !.orgs = <<>>], "Organization")
        names == QueryNames(S.dbo)
        kept  == SelectSeq(names, LAMBDA k : InList(k, auth))
        gone  == { k \in DOMAIN S.dbo : ~InList(k, auth) }
        orgs1 == [i \in 1..Len(kept) |-> [name |-> kept[i], members |-> S.dbo[kept[i]].members]]
        S2    == IF gone # {} THEN db_delete_multi(S1, "Organization", gone) ELSE S1
        orgs2 == IF Len(orgs1) < Len(auth) THEN FillAuthorized(orgs1, auth, 1) ELSE orgs1
    IN  IF S1.exc # "none" THEN S1
        ELSE IF S2.exc # "none" THEN [S2 EXCEPT !.orgs = orgs1]
        ELSE [S2 EXCEPT !.orgs = orgs2]

---------------------------------------------------------------------------
(* update_daily_active_user.  kwargs: the keyword arguments given. *)

MemberKeys == {"selected_org", "travel_radius", "location"}

\* Python truthiness of a keyword argument's value.
Truthy(k, v) == IF k = "location" THEN TRUE ELSE v # ""

\* update_daily_active_user with a test that forgets travel_radius: the entity
\* is written as soon as group and location are known.
update_daily_active_user_no_radius(S, username, kwargs, utcnow) ==
    LET S1 == IF username # NoUsername
              THEN LET e0 == IF username \in DOMAIN S.mem THEN S.mem[username] ELSE EmptyDict
                       set == { k \in DOMAIN kwargs : Truthy(k, kwargs[k]) }
                       e1 == [k \in DOMAIN e0 \cup set |->
                                 IF k \in set THEN kwargs[k] ELSE e0[k]]
                   IN  [S EXCEPT !.mem = DictSet(@, username, e1)]
              ELSE S
    IN  IF username \notin DOMAIN S1.mem
        THEN Raise(S1, "KeyError")
        ELSE IF {"selected_org", "location"} \subseteq DOMAIN S1.mem[username]
             THEN db_upsert_member(S1, username,
                                   S1.mem[username]["selected_org"],
                                   IF "travel_radius" \in DOMAIN S1.mem[username]
                                   THEN S1.mem[username]["travel_radius"] ELSE "0",
                                   S1.mem[username]["location"], utcnow)
             ELSE S1

update_daily_active_user(S, username, kwargs, utcnow) ==
    LET S1 == IF username # NoUsername
              THEN LET e0 == IF username \in DOMAIN S.mem THEN S.mem[username] ELSE EmptyDict
                       set == { k \in DOMAIN kwargs : Truthy(k, kwargs[k]) }
                       e1 == [k \in DOMAIN e0 \cup set |->
                                 IF k \in set THEN kwargs[k] ELSE e0[k]]
                   IN  [S EXCEPT !.mem = DictSet(@, username, e1)]
              ELSE S       \* logger.error('Required field "username" is missing')
    IN  IF username \notin DOMAIN S1.mem
        THEN Raise(S1, "KeyError")                         \* line 243: members[username]
        ELSE IF MemberKeys \subseteq DOMAIN S1.mem[username]
             THEN db_upsert_member(S1, username,
                                   S1.mem[username]["selected_org"],
                                   S1.mem[username]["travel_radius"],
                                   S1.mem[username]["location"], utcnow)
             ELSE S1

---------------------------------------------------------------------------
(* add_new_user, build_distance_selector. *)

build_distance_selector(S, update, selected_org) ==
    IF update.kind \in {"text", "location", "other_message"}    \* if update.message
    THEN Reply(S, <<"radius_menu", selected_org>>)
    ELSE S

\* add_new_user without the test "selected_org in organizations".
add_new_user_any_org(S, update, utcnow) ==
    IF update.kind # "text"
    THEN Raise(S, "AttributeError")
    ELSE
    LET selected_org == upper(update.text)
        username     == update.username
    IN  IF username = NoUsername
        THEN Reply(S, <<"need_username">>)
        ELSE LET S0 == [S EXCEPT !.orgs = OrgTouch(@, selected_org)]
                 list == Append(OrgGet(S0.orgs, selected_org), username)
                 S1 == [S0 EXCEPT !.orgs = OrgSet(@, selected_org, list)]
                 S2 == db_upsert_org(S1, selected_org, OrgGet(S1.orgs, selected_org))
                 S3 == update_daily_active_user(S2, username,
                                                [selected_org |-> selected_org], utcnow)
             IN  IF S2.exc # "none" THEN S2
                 ELSE IF S3.exc # "none" THEN S3
                 ELSE build_distance_selector(Reply(S3, <<"added", selected_org>>),
                                              update, selected_org)

\* add_new_user that saves the Organization entity before it appends the member.
add_new_user_save_first(S, update, utcnow) ==
    IF update.kind # "text"
    THEN Raise(S, "AttributeError")
    ELSE
    LET selected_org == upper(update.text)
        username     == update.username
    IN  IF username = NoUsername
        THEN Reply(S, <<"need_username">>)
        ELSE IF OrgHas(S.orgs, selected_org)
        THEN LET S1 == db_upsert_org(S, selected_org, OrgGet(S.orgs, selected_org))
                 list == Append(OrgGet(S1.orgs, selected_org), username)
                 S2 == [S1 EXCEPT !.orgs = OrgSet(@, selected_org, list)]
                 S3 == update_daily_active_user(S2, username,
                                                [selected_org |-> selected_org], utcnow)
             IN  IF S2.exc # "none" THEN S2
                 ELSE IF S3.exc # "none" THEN S3
                 ELSE build_distance_selector(Reply(S3, <<"added", selected_org>>),
                                              update, selected_org)
        ELSE Reply(S, <<"prompt_org">>)

add_new_user(S, update, utcnow) ==
    IF update.kind # "text"
    THEN Raise(S, "AttributeError")        \* update.message.text is None: None.upper()
    ELSE
    LET selected_org == upper(update.text)
        username     == update.username
    IN  IF username = NoUsername
        THEN Reply(S, <<"need_username">>)
        ELSE IF OrgHas(S.orgs, selected_org)
        THEN LET list == Append(OrgGet(S.orgs, selected_org), username)
                 S1 == [S EXCEPT !.orgs = OrgSet(@, selected_org, list)]
                 S2 == db_upsert_org(S1, selected_org, OrgGet(S1.orgs, selected_org))
                 S3 == update_daily_active_user(S2, username,
                                                [selected_org |-> selected_org], utcnow)
             IN  IF S2.exc # "none" THEN S2
                 ELSE IF S3.exc # "none" THEN S3
                 ELSE build_distance_selector(Reply(S3, <<"added", selected_org>>),
                                              update, selected_org)
        ELSE Reply(S, <<"prompt_org">>)

---------------------------------------------------------------------------
(* inline_keyboard_handler, request_location. *)

request_location(S, update) == Reply(S, <<"request_location">>)

inline_keyboard_handler(S, update, utcnow) ==
    IF isdigit(update.data)
    THEN LET S1 == update_daily_active_user(S, update.username,
                                            [travel_radius |-> update.data], utcnow)
         IN  IF S1.exc # "none" THEN S1
             ELSE request_location(Reply(S1, <<"radius_selected", update.data>>), update)
    ELSE S                                  \* logger.warning(...)

---------------------------------------------------------------------------
(* compute_distance, check_who_is_around. *)

\* geopy.distance.distance(p, q) on the WGS-84 ellipsoid, for points given as
\* (latitude, longitude) tuples in hundredths of a degree: over the few kilometres
\* that matter here a hundredth of a degree of latitude and of longitude has a
\* fixed length in metres that depends on the latitude (10, 37.75 and 55.45
\* degrees are the latitudes the model's points lie on).
MetresPerLat(lat) ==
    CASE lat <= 2000 -> 1106
      [] lat > 2000 /\ lat <= 4500 -> 1110
      [] OTHER -> 1113

MetresPerLon(lat) ==
    CASE lat <= 2000 -> 1096
      [] lat > 2000 /\ lat <= 4500 -> 881
      [] OTHER -> 633

Abs(x) == IF x < 0 THEN -x ELSE x

\* The square of the distance in metres; points more than a fifth of a degree
\* apart are reported as 2000000000 (44 km: beyond every radius of the menu).
geodesic(p, q) ==
    IF Abs(p[1] - q[1]) > 20 \/ Abs(p[2] - q[2]) > 20 THEN 2000000000
    ELSE LET dlat == (p[1] - q[1]) * MetresPerLat(p[1])
             dlon == (p[2] - q[2]) * MetresPerLon(p[1])
         IN  dlat * dlat + dlon * dlon

\* The tuples handed to geopy are (longitude, latitude), as written in the code.
compute_distance(location_a, location_b) ==
    LET loc_a == <<location_a.longitude, location_a.latitude>>
        loc_b == <<location_b.longitude, location_b.latitude>>
    IN  geodesic(loc_a, loc_b)

\* distance <= float(radius), with the distance squared and in metres.
WithinKm(d2, km) == d2 <= (km * 1000) * (km * 1000)

\* '@' + username
At(username) == <<"@", username>>

\* The loop of lines 341-347 over usernames_in_the_org[i..], acc = users_nearby.
\* The operands are evaluated left to right: a candidate without 'location' raises
\* before the requester's 'travel_radius' is read.
RECURSIVE NearbyLoop(_, _, _, _, _)
NearbyLoop(mem, list, current_username, i, acc) ==
    IF i > Len(list) THEN [exc |-> "none", nearby |-> acc]
    ELSE LET username     == list[i]
             current_user == mem[current_username]
         IN  IF username # current_username /\ username \in DOMAIN mem
             THEN IF "location" \notin DOMAIN current_user
                     \/ "location" \notin DOMAIN mem[username]
                     \/ "travel_radius" \notin DOMAIN current_user
                  THEN [exc |-> "KeyError", nearby |-> acc]
                  ELSE IF WithinKm(compute_distance(current_user["location"],
                                                    mem[username]["location"]),
                                   float(current_user["travel_radius"]))
                       THEN NearbyLoop(mem, list, current_username, i + 1,
                                       Append(acc, At(username)))
                       ELSE NearbyLoop(mem, list, current_username, i + 1, acc)
             ELSE NearbyLoop(mem, list, current_username, i + 1, acc)

\* check_who_is_around that takes its candidates from all of members instead of
\* the list of the requester's group.
check_who_is_around_all_members(S, update) ==
    LET current_username == update.username
    IN  IF current_username \notin DOMAIN S.mem
        THEN Raise(S, "KeyError")
        ELSE IF "selected_org" \notin DOMAIN S.mem[current_username]
        THEN Raise(S, "KeyError")
        ELSE LET selected_org == S.mem[current_username]["selected_org"]
                 S1   == [S EXCEPT !.orgs = OrgTouch(@, selected_org)]
                 loop == NearbyLoop(S1.mem, QueryNames(S1.mem), current_username, 1, <<>>)
             IN  IF loop.exc # "none" THEN Raise(S1, loop.exc)
                 ELSE IF Len(loop.nearby) > 0
                      THEN Reply([S1 EXCEPT !.nearby = loop.nearby], <<"nearby">>)
                      ELSE Reply(S1, <<"nobody">>)

check_who_is_around(S, update) ==
    LET current_username == update.username
    IN  IF current_username \notin DOMAIN S.mem
        THEN Raise(S, "KeyError")                       \* members[current_username]
        ELSE IF "selected_org" \notin DOMAIN S.mem[current_username]
        THEN Raise(S, "KeyError")                       \* current_user['selected_org']
        ELSE LET selected_org == S.mem[current_username]["selected_org"]
                 S1   == [S EXCEPT !.orgs = OrgTouch(@, selected_org)]
                 loop == NearbyLoop(S1.mem, OrgGet(S1.orgs, selected_org),
                                    current_username, 1, <<>>)
             IN  IF loop.exc # "none" THEN Raise(S1, loop.exc)
                 ELSE IF Len(loop.nearby) > 0
                      THEN Reply([S1 EXCEPT !.nearby = loop.nearby], <<"nearby">>)
                      ELSE Reply(S1, <<"nobody">>)

---------------------------------------------------------------------------
(* get_message_age, timeout. *)

\* message.age: milliseconds from the message's date (its edit_date when it was
\* edited) to datetime.now().
get_message_age(message) == message.age

max_age_ms == 10000

\* timeout with the comparison off by one: an age of exactly max_age_ms passes.
timeout_inclusive(update, message) ==
    IF get_message_age(message) <= max_age_ms THEN FALSE ELSE TRUE

timeout(update, message) ==
    IF get_message_age(message) < max_age_ms THEN FALSE ELSE TRUE

---------------------------------------------------------------------------
(* bot_help, start, webhook. *)

bot_help(S, update) == Reply(S, <<"help">>)

start(S, update, env, utcnow) ==
    LET S1       == refresh_organizations(S, env)
        S2       == refresh_members(S1, utcnow)
        username == update.username
        org_code == OrgKeys(S2.orgs)[1]
    IN  IF S1.exc # "none" THEN S1
        ELSE IF S2.exc # "none" THEN S2
        ELSE IF username \in DOMAIN S2.mem
        THEN IF S2.mem[username]["selected_org"] # ""
             THEN build_distance_selector(S2, update, S2.mem[username]["selected_org"])
             ELSE add_new_user(S2, update, utcnow)
        ELSE IF InList(username, OrgGet(S2.orgs, org_code))
        THEN LET S3 == update_daily_active_user(S2, username,
                                                [selected_org |-> org_code], utcnow)
             IN  IF S3.exc # "none" THEN S3
                 ELSE build_distance_selector(S3, update, org_code)
        ELSE add_new_user(S2, update, utcnow)

\* The handler's return value; an exception leaves webhook without one.
Return(S, r) == IF S.exc # "none" THEN [S EXCEPT !.ret = "raise"] ELSE [S EXCEPT !.ret = r]

\* update.message, update.callback_query.message: the message timeout() reads.
MessageOf(update) == [age |-> update.age]

webhook(S, update, env, utcnow) ==
    IF update.kind = "not_post" THEN Return(S, "error")
    ELSE IF update.kind \in {"text", "location", "other_message"}
    THEN IF timeout(update, MessageOf(update)) THEN Return(S, "Timeout")
         ELSE IF update.kind = "text" /\ update.text = "/start"
              THEN Return(start(S, update, env, utcnow), "ok")
         ELSE IF update.kind = "text" /\ update.text = "/help"
              THEN Return(bot_help(S, update), "ok")
         ELSE IF update.kind = "location"
              THEN LET S1 == update_daily_active_user(S, update.username,
                                                      [location |-> update.location], utcnow)
                   IN  IF S1.exc # "none" THEN Return(S1, "ok")
                       ELSE Return(check_who_is_around(S1, update), "ok")
         ELSE Return(add_new_user(S, update, utcnow), "ok")
    ELSE IF update.kind = "callback"
    THEN IF timeout(update, MessageOf(update)) THEN Return(S, "Timeout")
         ELSE Return(inline_keyboard_handler(S, update, utcnow), "ok")
    ELSE Return(S, "error")

---------------------------------------------------------------------------
(* The updates Telegram delivers. *)

TextUpdate(u, t, a) == [kind |-> "text", username |-> u, text |-> t, age |-> a]

LocationUpdate(u, l, a) == [kind |-> "location", username |-> u, location |-> l, age |-> a]

\* A message with neither text nor location (a photo, a sticker).
OtherMessageUpdate(u, a) == [kind |-> "other_message", username |-> u, age |-> a]

\* age: of callback_query.message, the menu the button belongs to;
\* click_age: of the button press itself, which comes after the menu.
CallbackUpdate(u, d, a, c) ==
    [kind |-> "callback", username |-> u, data |-> d, age |-> a, click_age |-> c]

Fresh(update) == update.age < 10000

\* An update that is dropped before its content is looked at carries one
\* content per kind and sender.
StartUpdates == { TextUpdate(u, "/start", a) : u \in Senders, a \in Ages }

HelpUpdates == { TextUpdate(u, "/help", a) : u \in Senders, a \in Ages }

GroupNameUpdates ==
    { update \in { TextUpdate(u, t, a) : u \in Senders, t \in GroupTexts, a \in Ages } :
        Fresh(update) \/ update.text = "acme" }

RadiusUpdates ==
    { update \in { CallbackUpdate(u, d, a, c) : u \in Senders, d \in CallbackData,
                                                a \in Ages, c \in Ages } :
        update.click_age <= update.age /\ (Fresh(update) \/ update.data = "2") }

LocationUpdates ==
    { update \in { LocationUpdate(u, l, a) : u \in Senders, l \in Locations, a \in Ages } :
        /\ update.location \in LocationsOf(update.username)
        /\ Fresh(update) \/ update.location = Home }

OtherMessageUpdates == { OtherMessageUpdate(u, a) : u \in Senders, a \in Ages }

\* An update with neither message nor callback_query, and a request that is no POST.
OtherRequests == { [kind |-> "no_message"], [kind |-> "not_post"] }

Updates == StartUpdates \cup HelpUpdates \cup GroupNameUpdates \cup RadiusUpdates
           \cup LocationUpdates \cup OtherMessageUpdates \cup OtherRequests

\* webhook(request) on the current state.
Handle(update) == webhook(Cur, update, AUTHORIZED_ORGS, now)

\* webhook(request) when the n-th Datastore call of the request fails.
HandleFailing(update, n) == webhook([Cur EXCEPT !.fail = n], update, AUTHORIZED_ORGS, now)

\* The state a previous request or operation left, for the next one.
Carry(S) == [Cur EXCEPT !.orgs = S.orgs, !.mem = S.mem, !.dbo = S.dbo, !.dbm = S.dbm]

\* webhook(request) on the state a previous request left.
Then(S, update) == webhook(Carry(S), update, AUTHORIZED_ORGS, now)

---------------------------------------------------------------------------
(* The alice/bob scenario of the specification, followed step by step:        *)
(* alice: /start, group ACME, radius 2, location; bob: the same, at a location *)
(* within 2 km of alice; alice: her location again.                           *)

\* The distance between two locations: geopy over (latitude, longitude).
DistanceBetween(a, b) == geodesic(<<a.latitude, a.longitude>>, <<b.latitude, b.longitude>>)

ScenarioUser(k) == IF k <= 4 \/ k = 9 THEN "alice" ELSE "bob"

ScenarioStep(k, update) ==
    /\ update.kind \in {"text", "location", "callback"}
    /\ update.username = ScenarioUser(k)
    /\ Fresh(update)
    /\ CASE k \in {1, 5} -> update.kind = "text" /\ update.text = "/start"
         [] k \in {2, 6} -> update.kind = "text" /\ upper(update.text) = "ACME"
         [] k \in {3, 7} -> update.kind = "callback" /\ update.data = "2"
         [] k = 4 -> update.kind = "location"
         [] k = 8 -> /\ update.kind = "location"
                     /\ WithinKm(DistanceBetween(update.location,
                                                 members["alice"]["location"]), 2)
         [] k = 9 -> /\ update.kind = "location"
                     /\ update.location = members["alice"]["location"]
         [] OTHER -> FALSE

ScenarioNext(update) ==
    IF scenario >= 0 /\ scenario < 8 /\ ScenarioStep(scenario + 1, update)
    THEN scenario + 1
    ELSE -1

---------------------------------------------------------------------------
(* Actions. *)

Init ==
    /\ organizations = <<>>
    /\ members = EmptyDict
    /\ dbOrganization = EmptyDict
    /\ dbMember = EmptyDict
    /\ AUTHORIZED_ORGS \in EnvChoices
    /\ now = StartDate
    /\ ticks = 0
    /\ deploys = 0
    /\ scenario = 0

\* webhook(request) for one update, to its return or to the exception that ends it.
Deliver(update) ==
    LET S == Handle(update)
    IN  /\ \A i \in 1..Len(S.orgs) : Len(S.orgs[i].members) <= MaxListLen
        /\ organizations' = S.orgs
        /\ members' = S.mem
        /\ dbOrganization' = S.dbo
        /\ dbMember' = S.dbm
        /\ scenario' = ScenarioNext(update)
        /\ UNCHANGED <<AUTHORIZED_ORGS, now, ticks, deploys>>

Start == \E update \in StartUpdates : Deliver(update)

Help == \E update \in HelpUpdates : Deliver(update)

GroupName == \E update \in GroupNameUpdates : Deliver(update)

SelectRadius == \E update \in RadiusUpdates : Deliver(update)

ShareLocation == \E update \in LocationUpdates : Deliver(update)

OtherMessage == \E update \in OtherMessageUpdates : Deliver(update)

OtherRequest == \E update \in OtherRequests : Deliver(update)

\* Time passes: a day, or as many days as the month has.
Tick ==
    /\ ticks < MaxTicks
    /\ \E n \in {1, DaysInMonth(now.year, now.month)} : now' = AddDays(now, n)
    /\ ticks' = ticks + 1
    /\ scenario' = -1
    /\ UNCHANGED <<organizations, members, dbOrganization, dbMember, AUTHORIZED_ORGS, deploys>>

\* A new process instance: the module is imported again (lines 36 and 41), with
\* the AUTHORIZED_ORGS of the deployment.  The Datastore stays.
Deploy ==
    /\ deploys < MaxDeploys
    /\ \E env \in EnvChoices : AUTHORIZED_ORGS' = env
    /\ organizations' = <<>>
    /\ members' = EmptyDict
    /\ deploys' = deploys + 1
    /\ scenario' = -1
    /\ UNCHANGED <<dbOrganization, dbMember, now, ticks>>

Webhook ==
    \/ Start
    \/ Help
    \/ GroupName
    \/ SelectRadius
    \/ ShareLocation
    \/ OtherMessage
    \/ OtherRequest

\* One process, from its first request on, while time passes.
Next == Webhook \/ Tick

Spec == Init /\ [][Next]_vars

\* Deployments that follow one another on the same Datastore.
NextDeploy == Webhook \/ Deploy

SpecDeploy == Init /\ [][NextDeploy]_vars

---------------------------------------------------------------------------
(* What the claims speak of. *)

CacheAndStore(S) == <<S.orgs, S.mem, S.dbo, S.dbm>>

Untouched(S) == CacheAndStore(S) = <<organizations, members, dbOrganization, dbMember>>

\* The authorized list L, as a set.
Authorized == Range(authorized_orgs(AUTHORIZED_ORGS))

\* A Member entity with its three properties set.
GeoPoints == { GeoPoint(l.latitude, l.longitude) : l \in Locations }

CompleteEntity(e) ==
    /\ e.selected_org \in {"ACME", "OTHER"}
    /\ isdigit(e.travel_radius)
    /\ e.location \in GeoPoints

\* db_upsert_member was called by the handler.
PutMember(S) == InList(<<"put", "Member">>, S.calls)

NamedUpdates == StartUpdates \cup GroupNameUpdates \cup RadiusUpdates \cup LocationUpdates

---------------------------------------------------------------------------
(* C1: every Member entity of the Datastore has group, radius and location  *)
(* set, and whenever a handler upserts a Member entity the sender's entry   *)
(* of members holds all three, which are the ones written.                  *)
C1_NoPartialMember ==
    /\ \A u \in DOMAIN dbMember : CompleteEntity(dbMember[u])
    /\ \A update \in NamedUpdates :
         LET S == Handle(update)
             u == update.username
         IN  PutMember(S) =>
               /\ u \in DOMAIN S.mem
               /\ MemberKeys \subseteq DOMAIN S.mem[u]
               /\ S.dbm[u].selected_org = S.mem[u]["selected_org"]
               /\ S.dbm[u].travel_radius = S.mem[u]["travel_radius"]
               /\ S.dbm[u].location[1] = S.mem[u]["location"].latitude
               /\ S.dbm[u].location[2] = S.mem[u]["location"].longitude

\* A member is persisted while another has only part of the three in members.
C1_Witness ==
    \E u, v \in Usernames :
        /\ u \in DOMAIN dbMember
        /\ v \in DOMAIN members /\ v \notin DOMAIN dbMember
        /\ "selected_org" \in DOMAIN members[v] /\ "location" \in DOMAIN members[v]
        /\ "travel_radius" \notin DOMAIN members[v]

(* C2: after refresh_members (run by start after refresh_organizations), a  *)
(* Member entity stays in the Datastore and is in members exactly when its  *)
(* created_dttm is on today's date (year, month and day).                   *)
C2_RefreshKeepsTodayOnly ==
    LET S == refresh_members(refresh_organizations(Cur, AUTHORIZED_ORGS), now)
    IN  \A u \in DOMAIN dbMember :
            IF dbMember[u].created_dttm = now
            THEN u \in DOMAIN S.dbm /\ u \in DOMAIN S.mem
            ELSE u \notin DOMAIN S.dbm /\ u \notin DOMAIN S.mem

(* C3: after refresh_organizations with authorized list L the keys of       *)
(* organizations are exactly the names of L, each with the member list of   *)
(* its Organization entity (empty when it has none), and the Organization   *)
(* entities left are exactly those that were there with a name in L.        *)
C3_RefreshOrganizations ==
    LET S == refresh_organizations(Cur, AUTHORIZED_ORGS)
    IN  /\ Range(OrgKeys(S.orgs)) = Authorized
        /\ \A i, j \in 1..Len(S.orgs) : S.orgs[i].name = S.orgs[j].name => i = j
        /\ \A k \in Authorized :
               OrgGet(S.orgs, k) = IF k \in DOMAIN dbOrganization
                                   THEN dbOrganization[k].members ELSE <<>>
        /\ DOMAIN S.dbo = DOMAIN dbOrganization \cap Authorized
        /\ \A k \in DOMAIN S.dbo : S.dbo[k] = dbOrganization[k]

\* The refresh deletes an entity that is no longer authorized and gives an
\* authorized name that has no entity an empty list.
C3_Witness ==
    LET S == refresh_organizations(Cur, AUTHORIZED_ORGS)
    IN  /\ \E k \in DOMAIN dbOrganization : k \notin DOMAIN S.dbo
        /\ \E k \in Authorized : k \notin DOMAIN dbOrganization /\ OrgGet(S.orgs, k) = <<>>

(* C4: a proximity query that completes reports exactly the members of the *)
(* requester's group, other than the requester, that are in members and    *)
(* whose distance from the requester is at most the requester's radius.    *)
C4_NearbyWithinRequesterRadius ==
    \A update \in LocationUpdates :
        LET S == Handle(update)
            m == update.username
        IN  (Fresh(update) /\ m # NoUsername /\ S.ret = "ok"
               /\ MemberKeys \subseteq DOMAIN S.mem[m]) =>
              Range(S.nearby) =
                { At(c) : c \in { c \in Range(OrgGet(S.orgs, S.mem[m]["selected_org"])) :
                                    /\ c # m
                                    /\ c \in DOMAIN S.mem
                                    /\ WithinKm(DistanceBetween(S.mem[m]["location"],
                                                                S.mem[c]["location"]),
                                                float(S.mem[m]["travel_radius"])) } }

(* C5: from an empty Datastore with ACME authorized, after alice did start, *)
(* ACME, radius 2, location and bob did the same at a location within 2 km  *)
(* of alice, bob's query returns exactly alice, and alice's next query      *)
(* returns exactly bob.                                                     *)
C5_AliceBobScenario ==
    /\ scenario = 7 =>
         \A update \in LocationUpdates :
             ScenarioStep(8, update) =>
                 Handle(update).ret = "ok" /\ Handle(update).nearby = <<At("alice")>>
    /\ scenario = 8 =>
         \A update \in LocationUpdates :
             ScenarioStep(9, update) =>
                 Handle(update).ret = "ok" /\ Handle(update).nearby = <<At("bob")>>

(* C6: a member whose selected group is not authorized is never reported    *)
(* to a requester whose selected group is authorized.                       *)
C6_UnauthorizedNeverReported ==
    \A update \in LocationUpdates :
        LET S == Handle(update)
            m == update.username
        IN  (Fresh(update) /\ m # NoUsername /\ S.ret = "ok"
               /\ S.mem[m]["selected_org"] \in Authorized) =>
              \A c \in Usernames :
                  (At(c) \in Range(S.nearby) /\ "selected_org" \in DOMAIN S.mem[c]) =>
                      S.mem[c]["selected_org"] \in Authorized

\* The age webhook judges (lines 505 and 526): of update.message, or of
\* callback_query.message, the menu, for a callback.  A callback query has no
\* date of its own; a click that is 10 seconds old belongs to a menu that is older.
Stale(update) ==
    /\ update.kind \in {"text", "location", "other_message", "callback"}
    /\ update.age >= 10000

(* C7: an update that is 10 seconds old or older at receipt is dropped:     *)
(* webhook returns "Timeout", sends nothing, makes no Datastore call and    *)
(* leaves organizations, members and the Datastore as they were.            *)
C7_StaleDropped ==
    \A update \in Updates :
        Stale(update) =>
            LET S == Handle(update)
            IN  /\ S.ret = "Timeout"
                /\ Untouched(S)
                /\ S.calls = <<>>
                /\ S.replies = <<>>

\* A stale update is dropped in a state where the same update, fresh, would
\* have changed the cache or the Datastore.
C7_Witness ==
    \E update \in Updates :
        /\ Stale(update)
        /\ update.kind # "callback"
        /\ Handle(update).ret = "Timeout"
        /\ dbMember # EmptyDict
        /\ ~Untouched(Handle([update EXCEPT !.age = 9999]))

(* C8: a registration whose uppercased group name is no key of              *)
(* organizations changes neither the cache nor the Datastore, makes no      *)
(* Datastore call, and only asks for the group name again.                  *)
C8_UnknownGroupRejected ==
    \A update \in GroupNameUpdates :
        (Fresh(update) /\ ~OrgHas(organizations, upper(update.text))) =>
            LET S == Handle(update)
            IN  /\ S.ret = "ok"
                /\ Untouched(S)
                /\ S.calls = <<>>
                /\ update.username # NoUsername => S.replies = << <<"prompt_org">> >>

\* With the authorized groups loaded, a member's unknown group name is rejected.
C8_Witness ==
    \E update \in GroupNameUpdates :
        /\ Fresh(update) /\ update.username # NoUsername
        /\ OrgHas(organizations, "ACME")
        /\ ~OrgHas(organizations, upper(update.text))
        /\ Handle(update).replies = << <<"prompt_org">> >>
        /\ dbOrganization # EmptyDict

(* C9: after a registration of member m to a group whose uppercase name G  *)
(* is a key of organizations, m is in organizations[G], the Organization   *)
(* entity G holds exactly that list, members[m] has G as selected_org, and *)
(* a Member entity is written only if m's radius and location were known.  *)
C9_RegistrationRecorded ==
    \A update \in GroupNameUpdates :
        LET G == upper(update.text)
            m == update.username
            S == Handle(update)
        IN  (Fresh(update) /\ m # NoUsername /\ OrgHas(organizations, G)) =>
              /\ S.ret = "ok"
              /\ OrgHas(S.orgs, G) /\ InList(m, OrgGet(S.orgs, G))
              /\ G \in DOMAIN S.dbo /\ S.dbo[G].members = OrgGet(S.orgs, G)
              /\ S.mem[m]["selected_org"] = G
              /\ (PutMember(S) \/ S.dbm # dbMember) =>
                    /\ m \in DOMAIN members
                    /\ {"travel_radius", "location"} \subseteq DOMAIN members[m]
              /\ \A u \in DOMAIN S.dbm : u # m => u \in DOMAIN dbMember /\ S.dbm[u] = dbMember[u]

\* A member joins a group that already has a member, with no Member entity written.
C9_Witness ==
    \E update \in GroupNameUpdates :
        LET G == upper(update.text)
            S == Handle(update)
        IN  /\ Fresh(update) /\ update.username # NoUsername
            /\ OrgHas(organizations, G)
            /\ Len(OrgGet(organizations, G)) = 1
            /\ Len(S.dbo[G].members) = 2
            /\ ~PutMember(S)

(* C10: an update of any kind (start, group name, radius, location) from a *)
(* sender without a username is rejected: the handler does not raise, asks *)
(* for a username, and leaves cache and Datastore as they were.            *)
C10_MissingUsernameRejected ==
    \A update \in NamedUpdates :
        (Fresh(update) /\ update.username = NoUsername) =>
            LET S == Handle(update)
            IN  /\ S.ret = "ok"
                /\ Untouched(S)
                /\ S.calls = <<>>

(* C11: when a Datastore call of a request fails, the request aborts and    *)
(* organizations, members and the Datastore are as they were before it.     *)
C11_StoreFailureLeavesNoTrace ==
    \A n \in 1..MaxStoreCalls :
        /\ LET S == refresh_organizations([Cur EXCEPT !.fail = n], AUTHORIZED_ORGS)
           IN  S.exc = "ServiceUnavailable" => Untouched(S)
        /\ LET S == refresh_members([Cur EXCEPT !.fail = n], now)
           IN  S.exc = "ServiceUnavailable" => Untouched(S)
        /\ \A update \in GroupNameUpdates \cup RadiusUpdates \cup LocationUpdates :
               LET S == HandleFailing(update, n)
               IN  S.exc = "ServiceUnavailable" => (S.ret = "raise" /\ Untouched(S))

\* The answers of a proximity query: the list of members, or "no one is around".
Answered(S) == InList(<<"nearby">>, S.replies) \/ InList(<<"nobody">>, S.replies)

(* C12: a proximity query of a member whose entry of members has no group   *)
(* or no radius gives no answer, neither a list nor "no one is around": it  *)
(* ends in an error.                                                        *)
C12_NotReadyGetsNoAnswer ==
    \A update \in LocationUpdates :
        LET S == Handle(update)
            m == update.username
        IN  (Fresh(update) /\ m # NoUsername
               /\ (m \notin DOMAIN members
                     \/ ~({"selected_org", "travel_radius"} \subseteq DOMAIN members[m]))) =>
              (~Answered(S) /\ S.nearby = <<>> /\ S.ret = "raise")

(* C13: a proximity query never reports a member whose Member entity was    *)
(* last written on another date than today, also when the date has changed  *)
(* since the cache was filled.                                              *)
C13_OnlyTodaysMembersReported ==
    \A update \in LocationUpdates :
        LET S == Handle(update)
        IN  \A c \in Usernames :
                (At(c) \in Range(S.nearby) /\ c # update.username /\ c \in DOMAIN dbMember) =>
                    dbMember[c].created_dttm = now

(* C14: the proximity query of a member with group, radius and location     *)
(* completes with an answer and never ends in an error, whatever the        *)
(* entries of the other members of the group hold.                          *)
C14_ReadyQueryCompletes ==
    \A update \in LocationUpdates :
        LET S == Handle(update)
            m == update.username
        IN  (Fresh(update) /\ m \in DOMAIN members
               /\ {"selected_org", "travel_radius"} \subseteq DOMAIN members[m]) =>
              (S.ret = "ok" /\ Answered(S))

(* C15: once member m has registered a group, m's radius selection and      *)
(* location submission leave m with group, radius and location set and a    *)
(* Member entity written, and m's query completes, also when the /start of  *)
(* another member is handled in between.                                    *)
C15_OwnUpdatesSurviveOthersStart ==
    \A m \in Usernames : \A o \in Usernames \ {m} :
        (m \in DOMAIN members /\ "selected_org" \in DOMAIN members[m]) =>
            LET S1 == Handle(TextUpdate(o, "/start", 9999))
                S2 == Then(S1, CallbackUpdate(m, "2", 9999, 9999))
                S3 == Then(S2, LocationUpdate(m, Home, 9999))
            IN  /\ m \in DOMAIN S3.mem
                /\ MemberKeys \subseteq DOMAIN S3.mem[m]
                /\ m \in DOMAIN S3.dbm
                /\ S3.ret = "ok"

(* C16: every member of members that has a selected group g is in the list  *)
(* organizations[g], and g is a key of organizations.                       *)
C16_PresenceEnrolled ==
    \A u \in DOMAIN members :
        "selected_org" \in DOMAIN members[u] =>
            /\ OrgHas(organizations, members[u]["selected_org"])
            /\ InList(u, OrgGet(organizations, members[u]["selected_org"]))

NoDuplicates(list) == \A i, j \in 1..Len(list) : list[i] = list[j] => i = j

(* C18: no member occurs twice in a list of organizations or in the list of *)
(* an Organization entity, and a proximity query reports no member twice.   *)
C18_MembershipIsASet ==
    /\ \A i \in 1..Len(organizations) : NoDuplicates(organizations[i].members)
    /\ \A g \in DOMAIN dbOrganization : NoDuplicates(dbOrganization[g].members)
    /\ \A update \in LocationUpdates : NoDuplicates(Handle(update).nearby)

\* The groups in whose list u is, in the cache S.
EnrolledIn(S, u) == { S.orgs[i].name : i \in { i \in 1..Len(S.orgs) : InList(u, S.orgs[i].members) } }

(* C19: on /start a member who is in the list of an authorized group,       *)
(* whichever, or has an entry with a group in members, is sent the radius   *)
(* menu of such a group and is not asked for a group name.                  *)
C19_ReturningMemberSkipsGroupPrompt ==
    \A update \in StartUpdates :
        LET u == update.username
            R == refresh_members(refresh_organizations(Cur, AUTHORIZED_ORGS), now)
            S == Handle(update)
            known == EnrolledIn(R, u) \cup
                     (IF u \in DOMAIN R.mem THEN {R.mem[u]["selected_org"]} ELSE {})
        IN  (Fresh(update) /\ u # NoUsername /\ known # {}) =>
                \E g \in known : S.replies = << <<"radius_menu", g>> >>

(* C20: after a refresh with authorized list L, no registration, radius,    *)
(* location or query event adds a key outside L to organizations or writes  *)
(* an Organization entity with a name outside L.                            *)
C20_AuthorizedOnlyAfterRefresh ==
    \A update \in GroupNameUpdates \cup RadiusUpdates \cup LocationUpdates :
        LET S == Handle(update)
        IN  (organizations # <<>> /\ Range(OrgKeys(organizations)) \subseteq Authorized) =>
              /\ Range(OrgKeys(S.orgs)) \subseteq Authorized
              /\ \A g \in DOMAIN S.dbo :
                     (g \notin DOMAIN dbOrganization \/ S.dbo[g] # dbOrganization[g]) =>
                         g \in Authorized

\* The original reading of C21: a reported member has the requester's group as
\* its own selected group.
C21_ReportedShareSelectedGroup ==
    \A update \in LocationUpdates :
        LET S == Handle(update)
            m == update.username
        IN  (Fresh(update) /\ m # NoUsername /\ S.ret = "ok") =>
              \A c \in Usernames :
                  (At(c) \in Range(S.nearby) /\ "selected_org" \in DOMAIN S.mem[c]) =>
                      S.mem[c]["selected_org"] = S.mem[m]["selected_org"]

(* C21: every member reported by a proximity query of requester m is        *)
(* another member, with an entry in members, of the list of m's selected    *)
(* group in organizations; a member who registered to one group and later   *)
(* to another stays in the first list and is still reported to its members. *)
C21_ReportedAreEnrolled ==
    \A update \in LocationUpdates :
        LET S == Handle(update)
            m == update.username
        IN  (Fresh(update) /\ m # NoUsername /\ S.ret = "ok") =>
              \A c \in Usernames :
                  At(c) \in Range(S.nearby) =>
                      /\ c # m
                      /\ c \in DOMAIN S.mem
                      /\ InList(c, OrgGet(S.orgs, S.mem[m]["selected_org"]))

\* A query reports a member who has since selected another group.
C21_Witness ==
    \E update \in LocationUpdates : \E c \in Usernames :
        LET S == Handle(update)
            m == update.username
        IN  /\ Fresh(update) /\ m # NoUsername /\ S.ret = "ok"
            /\ At(c) \in Range(S.nearby)
            /\ "selected_org" \in DOMAIN S.mem[c]
            /\ S.mem[c]["selected_org"] # S.mem[m]["selected_org"]
            /\ InList(c, OrgGet(S.orgs, S.mem[m]["selected_org"]))

(* C22: a radius selection delivered less than 10 seconds after the member  *)
(* made it, by a member who has a group and was sent the radius menu, is   *)
(* not dropped as stale, and its radius is stored in the member's entry of  *)
(* members, however old the radius menu message is.                         *)
C22_FreshSelectionNotDropped ==
    \A update \in RadiusUpdates :
        LET S == Handle(update)
            u == update.username
        IN  (update.click_age < 10000 /\ isdigit(update.data) /\ u \in DOMAIN members
               /\ "selected_org" \in DOMAIN members[u]) =>
              /\ S.ret = "ok"
              /\ u \in DOMAIN S.mem
              /\ "travel_radius" \in DOMAIN S.mem[u]
              /\ S.mem[u]["travel_radius"] = update.data

=============================================================================
